---- MODULE Spec2Model ----
(***************************************************************************)
(* Route Weather Simulation Engine (src/weather_simulator.py).             *)
(*                                                                         *)
(* Units.  The source computes in IEEE doubles; the model computes in      *)
(* exact integers and keeps, where the source's result depends on it, the  *)
(* direction in which a double is off its exact value:                     *)
(*   - a length is a whole number of units, Scale units to the kilometre;  *)
(*   - lat/lon are arc lengths in the same units, and every segment of a   *)
(*     route runs along the equator or along a meridian, where the         *)
(*     Haversine distance is the absolute coordinate difference;           *)
(*   - route vertices lie on whole kilometres, so the divisions by         *)
(*     MIN_POINTS - 1 and MAX_POINTS - 1 in the interval selection are     *)
(*     exact;                                                              *)
(*   - distance_km, which the source rounds to 2 decimals, is kept in      *)
(*     hundredths of a kilometre;                                          *)
(*   - None is the empty tuple <<>> and a present value v is <<v>>.        *)
(*                                                                         *)
(* Rounding.  A double is off its exact value by far less than one unit,   *)
(* so a comparison of two lengths that differ in the model has the model's *)
(* outcome.  Where they are equal in the model the doubles decide:         *)
(*   - total_rounded_down says that the double total_distance_km lies      *)
(*     below the model's total;                                            *)
(*   - end_tie is what `cumulative_distance + distance >=                  *)
(*     next_sample_distance` gives for a sample that falls on the very end *)
(*     of the route;                                                       *)
(*   - below says that the double cumulative_distance lies below           *)
(*     next_sample_distance although the two are equal in the model;       *)
(*   - a sample that falls on the end of an inner segment is appended on   *)
(*     that segment or at the start of the next one;                       *)
(*   - an interpolated timestamp whose exact value is a whole number n is  *)
(*     the double n or one next to it, and int(), which truncates toward   *)
(*     zero, gives n or the whole number next to n on the side of 0; the   *)
(*     double lies at or above n where the fraction is above its exact     *)
(*     value (past_end, or below with an exact fraction of 0);             *)
(*   - the fraction of a sample that falls on the end of its segment is 1  *)
(*     in the model; the double can lie past 1 (past_end), and the         *)
(*     appended point then past the end of the segment, by a rounding      *)
(*     error.                                                              *)
(***************************************************************************)
EXTENDS Integers, Sequences, FiniteSets

VARIABLES
    pc,                           \* position of the single control flow
    ordered_route_data_with_time, \* simulate's argument: [lat, lon, elapsed]
    start_timestamp,              \* start_time.timestamp()
    route_with_timestamps,        \* projected route: [lat, lon, ts]
    total_distance_km,            \* simulate's total_distance_km (units)
    interval_km,                  \* sampling interval (units)
    adjusted,                     \* whether the `if total_distance_km > 0` block ran
    total_rounded_down,           \* the double total lies below the model's total
    end_tie,                      \* the while condition for a sample on the route's end
    seg,                          \* sampler's loop index i
    cumulative_distance,
    next_sample_distance,
    below,                        \* the double cumulative_distance < next_sample_distance
    fractions,                    \* the fraction of every pass through the while body
    sampled_points,               \* the list every stage mutates in place
    api_key,                      \* whether YAHOO_API_KEY is set
    yahoo_pattern,                \* the Coarse provider's weather, per point
    meteo_pattern,                \* the Detailed provider's behaviour, per point
    chunk_start,                  \* Coarse adapter's loop index i (0-based)
    yahoo_responses,              \* responses received, one per batch requested
    point_idx,                    \* Detailed loop: 1-based index of the point
    attempt,                      \* Detailed adapter's loop variable
    open_meteo_data,              \* result of _get_open_meteo_data for point_idx
    calls,                        \* every provider request issued, in order
    reconciled,                   \* per reconciled point: what the two adapters gave
    exception,                    \* the exception that left simulate, or <<>>
    report                        \* simulate's return value

vars == <<pc, ordered_route_data_with_time, start_timestamp,
          route_with_timestamps, total_distance_km, interval_km, adjusted,
          total_rounded_down, end_tie, seg, cumulative_distance,
          next_sample_distance, below, fractions, sampled_points, api_key,
          yahoo_pattern, meteo_pattern, chunk_start, yahoo_responses,
          point_idx, attempt, open_meteo_data, calls, reconciled, exception,
          report>>

routeVars == <<ordered_route_data_with_time, start_timestamp,
               route_with_timestamps, total_distance_km, interval_km, adjusted,
               total_rounded_down, end_tie>>
samplerVars == <<seg, cumulative_distance, next_sample_distance, below,
                 fractions>>
worldVars == <<api_key, yahoo_pattern, meteo_pattern>>
yahooVars == <<chunk_start, yahoo_responses>>
meteoVars == <<point_idx, attempt, open_meteo_data, reconciled>>

----------------------------------------------------------------------------
(* Program constants *)

MIN_POINTS == 5
MAX_POINTS == 15
HARD_MIN_INTERVAL == 5
DEFAULT_INTERVAL == 15
chunk_size == 10
MAX_ATTEMPTS == 3

(* Units per kilometre: a multiple of MIN_POINTS - 1 and of MAX_POINTS - 1. *)
Scale == 2 * (MAX_POINTS - 1)

----------------------------------------------------------------------------
(* Bounds of the model *)

MaxRouteKm == 320      \* longest route handed to simulate, in km
MaxCoord == 3          \* largest coordinate of a directly sampled route, in units
MaxInterval == 3       \* largest interval of a direct sampler call, in units
StartMinute == 10000   \* start_time, in minutes since the epoch

----------------------------------------------------------------------------
(* Helpers *)

None == <<>>
Some(v) == <<v>>

Abs(x) == IF x < 0 THEN -x ELSE x
Max(a, b) == IF a >= b THEN a ELSE b

Sign(x) == IF x > 0 THEN 1 ELSE IF x < 0 THEN -1 ELSE 0

(* int(x) of a double x that is the whole number n (side 0) or lies next to it,
   above (side 1) or below (side -1): int() truncates toward zero. *)
IntNear(n, side) ==
    IF side > 0 /\ n < 0 THEN n + 1
    ELSE IF side < 0 /\ n > 0 THEN n - 1
    ELSE n

(* What int(base + num / den) can give, for integers base, num and den > 0.
   Where base + num / den is a whole number n, the double lies at n or next to
   it on one of the sides in sides; elsewhere int() truncates toward zero. *)
IntOfSum(base, num, den, sides) ==
    LET floor == base + (num \div den)
    IN  IF num % den = 0 THEN {IntNear(floor, side) : side \in sides}
        ELSE IF floor >= 0 THEN {floor} ELSE {floor + 1}

(* round(x, 2) of a length of x units, in hundredths of a km.  100 * x / Scale
   is a multiple of 1/7, so no tie arises and the rounding mode is immaterial. *)
Round2(x) == (2 * 100 * x + Scale) \div (2 * Scale)

(* Earth radius (km) *)
R == 6371

(* Half the circumference pi * R in units, rounded down (355/113 is pi to 7
   digits and gives the same whole number): the longest great-circle arc. *)
HalfTurn == (355 * R * Scale) \div 113

(* haversine: the great-circle distance.  Along the equator and along a
   meridian it is the absolute difference of the moving coordinate, as long as
   that is the shorter arc: at most half the circumference. *)
haversine(lat1, lon1, lat2, lon2) ==
    CASE lon1 = lon2 /\ Abs(lat2 - lat1) <= HalfTurn -> Abs(lat2 - lat1)
      [] lon1 # lon2 /\ lat1 = 0 /\ lat2 = 0 /\ Abs(lon2 - lon1) <= HalfTurn
           -> Abs(lon2 - lon1)

(* A segment the model's haversine is defined for. *)
OnGrid(p, q) ==
    \/ p[2] = q[2] /\ Abs(q[1] - p[1]) <= HalfTurn
    \/ p[2] # q[2] /\ p[1] = 0 /\ q[1] = 0 /\ Abs(q[2] - p[2]) <= HalfTurn

RECURSIVE RouteLength(_)
RouteLength(r) ==
    IF Len(r) < 2 THEN 0
    ELSE RouteLength(SubSeq(r, 1, Len(r) - 1))
         + haversine(r[Len(r) - 1][1], r[Len(r) - 1][2], r[Len(r)][1], r[Len(r)][2])

----------------------------------------------------------------------------
(* simulate_journey_and_get_weather, up to the call of
   _generate_weather_report *)

(* `lat, lon, elapsed_seconds = point` unpacks exactly three values. *)
Unpacks(point) == Len(point) = 3

(* Mutant: the elapsed seconds are taken as the absolute timestamp. *)
ProjectFromZero(r, start) == [k \in 1..Len(r) |-> <<r[k][1], r[k][2], r[k][3]>>]

Project(r, start) == [k \in 1..Len(r) |-> <<r[k][1], r[k][2], start + r[k][3]>>]

(* total / parts, for the totals of the model: whole kilometres. *)
Share(total, parts) == CASE total % parts = 0 -> total \div parts

(* (total_distance_km // interval_km) + 1 with interval_km = 15.0: a total that
   is a multiple of 15 km in the model and lies below it as a double has the
   quotient before. *)
NumPoints(total, rounded_down) ==
    LET default == DEFAULT_INTERVAL * Scale
    IN  IF rounded_down /\ total % default = 0
        THEN total \div default
        ELSE (total \div default) + 1

(* Mutant: the interval is total / points, not total / (points - 1). *)
AdjustedIntervalPerPoint(total, rounded_down) ==
    LET default == DEFAULT_INTERVAL * Scale
        num_points == NumPoints(total, rounded_down)
        chosen == IF num_points < MIN_POINTS THEN total \div MIN_POINTS
                  ELSE IF num_points > MAX_POINTS THEN total \div MAX_POINTS
                  ELSE default
    IN  Max(chosen, HARD_MIN_INTERVAL * Scale)

(* Mutant: the branch that widens the interval of a long route is missing. *)
AdjustedIntervalNoCap(total, rounded_down) ==
    LET default == DEFAULT_INTERVAL * Scale
        num_points == NumPoints(total, rounded_down)
        chosen == IF num_points < MIN_POINTS THEN Share(total, MIN_POINTS - 1)
                  ELSE default
    IN  Max(chosen, HARD_MIN_INTERVAL * Scale)

(* The body of `if total_distance_km > 0` *)
AdjustedInterval(total, rounded_down) ==
    LET default == DEFAULT_INTERVAL * Scale
        num_points == NumPoints(total, rounded_down)
        chosen == IF num_points < MIN_POINTS THEN Share(total, MIN_POINTS - 1)
                  ELSE IF num_points > MAX_POINTS THEN Share(total, MAX_POINTS - 1)
                  ELSE default
    IN  Max(chosen, HARD_MIN_INTERVAL * Scale)

(* Mutant: the adjustment also runs for a route of no length. *)
AdjustmentAlways(total) == total >= 0

(* `if total_distance_km > 0` *)
AdjustmentRuns(total) == total > 0

SelectInterval(total, rounded_down) ==
    IF AdjustmentRuns(total) THEN AdjustedInterval(total, rounded_down)
    ELSE DEFAULT_INTERVAL * Scale

(* The directions the double total can be off: a sum of no distances, or of
   distances 0.0, is 0.0. *)
TotalRoundings(total) == IF total = 0 THEN {FALSE} ELSE BOOLEAN

(* What `cumulative_distance + distance >= next_sample_distance` can give for
   the sample that falls on the end of the route, where cumulative_distance +
   distance is the double total_distance_km.
   - interval_km = total / 4: next_sample_distance, the interval added 4 times,
     is the total again, bit for bit;
   - interval_km = total / 14: the 14 additions round either way;
   - interval_km = 15.0 or 5.0: next_sample_distance is exact, and the
     comparison is one of the double total with the model's total. *)
EndTies(total, rounded_down) ==
    LET num_points == NumPoints(total, rounded_down)
        floor == HARD_MIN_INTERVAL * Scale * (MIN_POINTS - 1)
    IN  IF ~AdjustmentRuns(total) THEN {TRUE}
        ELSE IF num_points > MAX_POINTS THEN BOOLEAN
        ELSE IF num_points < MIN_POINTS
                /\ (total > floor \/ (total = floor /\ ~rounded_down))
        THEN {TRUE}
        ELSE {~rounded_down}

SimulateEmpty ==
    /\ pc = "simulate"
    /\ ordered_route_data_with_time = <<>>
    /\ pc' = "done"
    /\ report' = <<>>
    /\ UNCHANGED <<routeVars, samplerVars, sampled_points, worldVars, yahooVars,
                   meteoVars, calls, exception>>

(* The index of the first point of r that is not a triple, Len(r) + 1 if
   there is none. *)
FirstBad(r) ==
    IF \A k \in DOMAIN r : Unpacks(r[k]) THEN Len(r) + 1
    ELSE CHOOSE k \in DOMAIN r :
            /\ ~Unpacks(r[k])
            /\ \A j \in 1..(k - 1) : Unpacks(r[j])

(* A point that is not a triple: the loop has appended the points before it,
   the unpacking on line 203 raises ValueError and nothing catches it. *)
SimulateUnpackError ==
    /\ pc = "simulate"
    /\ ordered_route_data_with_time # <<>>
    /\ FirstBad(ordered_route_data_with_time) <= Len(ordered_route_data_with_time)
    /\ route_with_timestamps' =
          Project(SubSeq(ordered_route_data_with_time, 1,
                         FirstBad(ordered_route_data_with_time) - 1),
                  start_timestamp)
    /\ exception' = Some("ValueError")
    /\ pc' = "raised"
    /\ UNCHANGED <<ordered_route_data_with_time, start_timestamp,
                   total_distance_km, interval_km, adjusted, total_rounded_down,
                   end_tie, samplerVars, sampled_points, worldVars, yahooVars,
                   meteoVars, calls, report>>

SimulateProject ==
    /\ pc = "simulate"
    /\ ordered_route_data_with_time # <<>>
    /\ \A k \in DOMAIN ordered_route_data_with_time :
          Unpacks(ordered_route_data_with_time[k])
    /\ LET projected == Project(ordered_route_data_with_time, start_timestamp)
           total == RouteLength(projected)
       IN  /\ route_with_timestamps' = projected
           /\ total_distance_km' = total
           /\ adjusted' = AdjustmentRuns(total)
           /\ \E rounded_down \in TotalRoundings(total) :
                 /\ total_rounded_down' = rounded_down
                 /\ interval_km' = SelectInterval(total, rounded_down)
                 /\ end_tie' \in EndTies(total, rounded_down)
    /\ pc' = "sample"
    /\ UNCHANGED <<ordered_route_data_with_time, start_timestamp, samplerVars,
                   sampled_points, worldVars, yahooVars, meteoVars, calls,
                   exception, report>>

----------------------------------------------------------------------------
(* _sample_route_by_distance *)

SamplePoint(lat, lon, ts, dist) ==
    [lat |-> lat, lon |-> lon, timestamp |-> ts, distance_km |-> dist,
     weather |-> None]

SegDistance(k) ==
    haversine(route_with_timestamps[k][1], route_with_timestamps[k][2],
              route_with_timestamps[k + 1][1], route_with_timestamps[k + 1][2])

(* The points the while body can append: prev + fraction * (curr - prev) with
   fraction = (next_sample_distance - cumulative_distance) / distance, one for
   each value int(interp_ts) can take. *)
InterpolatedAt(prev_pt, curr_pt, distance, cum, next, timestamps) ==
    {SamplePoint(
        \* exact: on a grid segment the moving coordinate differs by +-distance
        prev_pt[1] + ((next - cum) * (curr_pt[1] - prev_pt[1])) \div distance,
        prev_pt[2] + ((next - cum) * (curr_pt[2] - prev_pt[2])) \div distance,
        ts,
        Round2(next)) : ts \in timestamps}

(* Where the double prev_pt[2] + fraction * dt can lie, seen from a whole exact
   value, for fraction = part / whole:
   - dt = 0: the product is 0 and the sum exact;
   - part = 0: the fraction is 0, or above 0 by a rounding error if isBelow;
   - part = whole: the fraction is above 1 if pastEnd, at most 1 otherwise;
   - elsewhere the fraction and the product are rounded either way. *)
Sides(part, whole, dt, isBelow, pastEnd) ==
    IF dt = 0 THEN {0}
    ELSE IF part = 0 THEN (IF isBelow THEN {0, Sign(dt)} ELSE {0})
    ELSE IF part = whole THEN (IF pastEnd THEN {0, Sign(dt)} ELSE {0, -Sign(dt)})
    ELSE {-1, 0, 1}

(* Mutant: the timestamp is interpolated from the far end of the segment. *)
InterpolatedFromEnd(prev_pt, curr_pt, distance, cum, next, isBelow, pastEnd) ==
    InterpolatedAt(prev_pt, curr_pt, distance, cum, next,
                   IntOfSum(curr_pt[3], (next - cum) * (prev_pt[3] - curr_pt[3]),
                            distance,
                            Sides(next - cum, distance, prev_pt[3] - curr_pt[3],
                                  isBelow, pastEnd)))

(* isBelow: the double cumulative_distance lies below next_sample_distance
   where the two are equal in the model; pastEnd: the double fraction is
   above 1. *)
Interpolated(prev_pt, curr_pt, distance, cum, next, isBelow, pastEnd) ==
    InterpolatedAt(prev_pt, curr_pt, distance, cum, next,
                   \* int(interp_ts)
                   IntOfSum(prev_pt[3], (next - cum) * (curr_pt[3] - prev_pt[3]),
                            distance,
                            Sides(next - cum, distance, curr_pt[3] - prev_pt[3],
                                  isBelow, pastEnd)))

(* What the doubles can give where cumulative_distance + distance and
   next_sample_distance are equal in the model.
   - cumulative_distance lies below next_sample_distance (the condition was
     false for the segment before): the segment has length 0 and the condition
     is false again;
   - a segment of length 0 otherwise: the two doubles are equal;
   - the sample falls on the end of the route: end_tie;
   - the sample falls on the end of an inner segment: either. *)
TieOutcomes(cum, distance, isBelow, atEnd, endTie) ==
    IF isBelow THEN {FALSE}
    ELSE IF distance = 0 THEN {TRUE}
    ELSE IF atEnd THEN {endTie}
    ELSE BOOLEAN

(* Mutant: a sample that falls exactly on the end of a segment is skipped. *)
WhileConditionStrict(cum, distance, next, ties) == {cum + distance > next}

(* What `while cumulative_distance + distance >= next_sample_distance` can
   give; ties is what it can give where the two sides are equal in the model. *)
WhileCondition(cum, distance, next, ties) ==
    IF cum + distance = next THEN ties ELSE {cum + distance > next}

(* Whether the double fraction can lie past 1: for a sample on the end of the
   segment next_sample_distance - cumulative_distance, rounded, can exceed the
   distance although cumulative_distance + distance, rounded, reaches
   next_sample_distance. *)
PastEnds(cum, distance, next) ==
    IF next - cum = distance THEN BOOLEAN ELSE {FALSE}

(* `fraction = (next_sample_distance - cumulative_distance) / distance` on
   segment segment: numerator and denominator in units; cum_below says that the
   double numerator is above 0 where the model's is 0, past_end that the double
   fraction is above 1. *)
Fraction(segment, cum, distance, next, isBelow, pastEnd) ==
    [seg |-> segment, num |-> next - cum, den |-> distance,
     cum_below |-> isBelow, past_end |-> pastEnd]

(* The while condition at the sampler's current position. *)
WhileOutcomes ==
    WhileCondition(cumulative_distance, SegDistance(seg), next_sample_distance,
                   TieOutcomes(cumulative_distance, SegDistance(seg), below,
                               cumulative_distance + SegDistance(seg)
                                   = RouteLength(route_with_timestamps),
                               end_tie))

(* What int(interp_ts) raises once the division by a distance of 0.0 (a numpy
   double: no ZeroDivisionError) has made the fraction nan or infinite: nan for
   0/0 and for an infinity times a time difference of 0. *)
IntError(prev_pt, curr_pt, cum, next) ==
    IF next = cum \/ curr_pt[3] = prev_pt[3]
    THEN "ValueError: cannot convert float NaN to integer"
    ELSE "OverflowError: cannot convert float infinity to integer"

SampleEmptyRoute ==
    /\ pc = "sample"
    /\ route_with_timestamps = <<>>
    /\ sampled_points' = <<>>
    /\ pc' = "sampled"
    /\ UNCHANGED <<routeVars, samplerVars, worldVars, yahooVars, meteoVars,
                   calls, exception, report>>

(* Mutant: next_sample_distance starts at 0, not at the interval. *)
SampleFirstFromZero ==
    /\ pc = "sample"
    /\ route_with_timestamps # <<>>
    /\ cumulative_distance' = 0
    /\ next_sample_distance' = 0
    /\ below' = FALSE
    /\ fractions' = <<>>
    /\ sampled_points' =
         <<SamplePoint(route_with_timestamps[1][1], route_with_timestamps[1][2],
                       route_with_timestamps[1][3], 0)>>
    /\ seg' = 1
    /\ pc' = "sample_loop"
    /\ UNCHANGED <<routeVars, worldVars, yahooVars, meteoVars, calls, exception,
                   report>>

SampleFirst ==
    /\ pc = "sample"
    /\ route_with_timestamps # <<>>
    /\ cumulative_distance' = 0
    /\ next_sample_distance' = interval_km
    /\ below' = FALSE
    /\ fractions' = <<>>
    /\ sampled_points' =
         <<SamplePoint(route_with_timestamps[1][1], route_with_timestamps[1][2],
                       route_with_timestamps[1][3], 0)>>
    /\ seg' = 1
    /\ pc' = "sample_loop"
    /\ UNCHANGED <<routeVars, worldVars, yahooVars, meteoVars, calls, exception,
                   report>>

(* One pass through the while body *)
SampleEmit ==
    /\ pc = "sample_loop"
    /\ seg < Len(route_with_timestamps)
    /\ TRUE \in WhileOutcomes
    /\ IF SegDistance(seg) = 0
       THEN \* the fraction is nan or infinite, and int() raises
            /\ exception' = Some(IntError(route_with_timestamps[seg],
                                          route_with_timestamps[seg + 1],
                                          cumulative_distance,
                                          next_sample_distance))
            /\ pc' = "raised"
            /\ UNCHANGED <<sampled_points, next_sample_distance, below, fractions>>
       ELSE /\ \E past_end \in PastEnds(cumulative_distance, SegDistance(seg),
                                        next_sample_distance) :
                  /\ fractions' =
                        Append(fractions,
                               Fraction(seg, cumulative_distance,
                                        SegDistance(seg), next_sample_distance,
                                        below, past_end))
                  /\ \E point \in Interpolated(route_with_timestamps[seg],
                                               route_with_timestamps[seg + 1],
                                               SegDistance(seg),
                                               cumulative_distance,
                                               next_sample_distance, below,
                                               past_end) :
                        sampled_points' = Append(sampled_points, point)
            /\ next_sample_distance' = next_sample_distance + interval_km
            /\ below' = FALSE
            /\ UNCHANGED <<pc, exception>>
    /\ UNCHANGED <<routeVars, seg, cumulative_distance, worldVars, yahooVars,
                   meteoVars, calls, report>>

(* The while condition is false: `cumulative_distance += distance` and the
   next segment *)
SampleNextSegment ==
    /\ pc = "sample_loop"
    /\ seg < Len(route_with_timestamps)
    /\ FALSE \in WhileOutcomes
    /\ cumulative_distance' = cumulative_distance + SegDistance(seg)
    /\ below' = (cumulative_distance + SegDistance(seg) = next_sample_distance)
    /\ seg' = seg + 1
    /\ UNCHANGED <<pc, routeVars, next_sample_distance, fractions,
                   sampled_points, worldVars, yahooVars, meteoVars, calls,
                   exception, report>>

SampleReturn ==
    /\ pc = "sample_loop"
    /\ seg >= Len(route_with_timestamps)
    /\ pc' = "sampled"
    /\ UNCHANGED <<routeVars, samplerVars, sampled_points, worldVars, yahooVars,
                   meteoVars, calls, exception, report>>

----------------------------------------------------------------------------
(* The Coarse provider (Yahoo) as the adapter sees it.  A forecast entry is
   [Date, Rainfall]: Date in minutes (the '%Y%m%d%H%M' string), Rainfall in
   tenths of mm/h, None when the entry has no 'Rainfall' key.  A feature is
   its Property.WeatherList.Weather list. *)

Forecast(date, rainfall) == [Date |-> date, Rainfall |-> rainfall]

DryFeature == <<Forecast(StartMinute, Some(0)), Forecast(StartMinute + 10, Some(0))>>
WetFeature == <<Forecast(StartMinute, Some(12)), Forecast(StartMinute + 10, Some(7))>>
LaterFeature == <<Forecast(StartMinute, Some(0)), Forecast(StartMinute + 60, Some(30))>>
NoKeyFeature == <<Forecast(StartMinute, None)>>
EmptyFeature == <<>>

YahooPatterns ==
    [dry   |-> <<DryFeature>>,
     wet   |-> <<WetFeature>>,
     mixed |-> <<DryFeature, WetFeature, EmptyFeature, LaterFeature, NoKeyFeature>>]

(* The provider's feature for the j-th sample point (1-based) *)
YahooFeature(pat, j) == YahooPatterns[pat][((j - 1) % Len(YahooPatterns[pat])) + 1]

(* What requests.get / raise_for_status / response.json() yield for the batch
   of n points that starts after point `start`: an exception of
   requests.exceptions, or a parsed body. *)
RequestExceptions == {"ConnectionError", "HTTPError", "JSONDecodeError"}

YahooBody(pat, start, count, hasFeature) ==
    [kind |-> "json", hasFeature |-> hasFeature,
     Feature |-> [k \in 1..count |-> YahooFeature(pat, start + k)]]

YahooResponses(pat, start, n) ==
    {[kind |-> e, hasFeature |-> FALSE, Feature |-> <<>>] : e \in RequestExceptions}
    \cup {YahooBody(pat, start, 0, FALSE)}
    \cup {YahooBody(pat, start, c, TRUE) : c \in {n - 1, n, n + 1}}

----------------------------------------------------------------------------
(* _get_weather_for_points_yahoo *)

NoForecast == [description |-> "No forecast", rainfall_mm_h |-> None]

(* datetime.strptime(f['Date'], '%Y%m%d%H%M').timestamp() *)
DateTimestamp(date) == date * 60

(* min(all_forecasts, key=...): the first entry of least key *)
BestForecast(point, all_forecasts) ==
    LET key(k) == Abs(point.timestamp - DateTimestamp(all_forecasts[k].Date))
        best == CHOOSE k \in 1..Len(all_forecasts) :
                    /\ \A j \in 1..Len(all_forecasts) : key(k) <= key(j)
                    /\ \A j \in 1..(k - 1) : key(j) > key(k)
    IN  all_forecasts[best]

(* The body of the zip loop for one (point, weather_feature) pair *)
CoarseWeather(point, all_forecasts) ==
    IF all_forecasts = <<>> THEN NoForecast
    ELSE LET best_forecast == BestForecast(point, all_forecasts)
             rainfall == IF best_forecast.Rainfall = None THEN 0
                         ELSE best_forecast.Rainfall[1]
         IN  [description |-> IF rainfall > 0 THEN "Rain" ELSE "No rain",
              rainfall_mm_h |-> Some(rainfall)]

(* Mutant: the except clause marks every point, not the chunk's. *)
MarkAllFailed(points, start, n) ==
    [k \in 1..Len(points) |-> [points[k] EXCEPT !.weather = Some(NoForecast)]]

(* The points after the except clause ran for the chunk [start+1 .. start+n] *)
MarkChunkFailed(points, start, n) ==
    [k \in 1..Len(points) |->
        IF k > start /\ k <= start + n
        THEN [points[k] EXCEPT !.weather = Some(NoForecast)]
        ELSE points[k]]

(* The points after `for point, weather_feature in zip(chunk, Feature)` *)
ZipAnnotate(points, start, n, features) ==
    [k \in 1..Len(points) |->
        IF k > start /\ k <= start + n /\ k - start <= Len(features)
        THEN [points[k] EXCEPT !.weather = Some(CoarseWeather(points[k], features[k - start]))]
        ELSE points[k]]

ChunkLen(points, start) ==
    IF Len(points) - start < chunk_size THEN Len(points) - start ELSE chunk_size

(* `if not api_key:` marks every point and returns *)
YahooNoKey ==
    /\ pc = "yahoo"
    /\ ~api_key
    /\ sampled_points' = MarkChunkFailed(sampled_points, 0, Len(sampled_points))
    /\ pc' = "meteo"
    /\ UNCHANGED <<routeVars, samplerVars, worldVars, yahooVars, meteoVars,
                   calls, exception, report>>

(* One iteration of `for i in range(0, len(points), chunk_size)` *)
YahooBatch ==
    /\ pc = "yahoo"
    /\ api_key
    /\ chunk_start < Len(sampled_points)
    /\ LET n == ChunkLen(sampled_points, chunk_start)
       IN  \E response \in YahooResponses(yahoo_pattern, chunk_start, n) :
             /\ calls' = Append(calls, [api |-> "yahoo", at |-> chunk_start,
                                        attempt |-> 0, outcome |-> response.kind])
             /\ yahoo_responses' = Append(yahoo_responses, response)
             /\ IF response.kind \in RequestExceptions
                THEN /\ sampled_points' = MarkChunkFailed(sampled_points, chunk_start, n)
                     /\ chunk_start' = chunk_start + chunk_size
                     /\ UNCHANGED <<pc, exception>>
                ELSE IF ~response.hasFeature
                THEN \* ValueError is no RequestException: it leaves the adapter
                     /\ exception' = Some("ValueError")
                     /\ pc' = "raised"
                     /\ UNCHANGED <<sampled_points, chunk_start>>
                ELSE /\ sampled_points' = ZipAnnotate(sampled_points, chunk_start, n,
                                                      response.Feature)
                     /\ chunk_start' = chunk_start + chunk_size
                     /\ UNCHANGED <<pc, exception>>
    /\ UNCHANGED <<routeVars, samplerVars, worldVars, meteoVars, report>>

(* Mutant: the adapter returns once the first batch is done. *)
YahooReturnEarly ==
    /\ pc = "yahoo"
    /\ api_key
    /\ chunk_start >= chunk_size \/ chunk_start >= Len(sampled_points)
    /\ pc' = "meteo"
    /\ UNCHANGED <<routeVars, samplerVars, sampled_points, worldVars, yahooVars,
                   meteoVars, calls, exception, report>>

YahooReturn ==
    /\ pc = "yahoo"
    /\ api_key
    /\ chunk_start >= Len(sampled_points)
    /\ pc' = "meteo"
    /\ UNCHANGED <<routeVars, samplerVars, sampled_points, worldVars, yahooVars,
                   meteoVars, calls, exception, report>>

----------------------------------------------------------------------------
(* wmo_code_to_description *)

wmo_code_to_description(code) ==
    IF code \in {0, 1} THEN "Sunny"
    ELSE IF code \in {2, 3, 45, 48} THEN "Cloudy"
    ELSE IF code \in {51, 53, 55, 61, 63, 65, 71, 73, 75, 80, 81, 82, 95, 96, 99}
    THEN "Rain"
    ELSE "Cloudy"

----------------------------------------------------------------------------
(* The Detailed provider (Open-Meteo) as the adapter sees it.  An hourly block
   is [time, temperature_2m, weather_code]: time in hours (the ISO strings),
   temperatures in tenths of a degree; temperature_2m is None when the body
   has no such key. *)

StartHour == StartMinute \div 60

Hourly(temps, codes) ==
    [time |-> <<StartHour + 1, StartHour + 2, StartHour + 4>>,
     temperature_2m |-> Some(temps), weather_code |-> codes]

SunnyHours == Hourly(<<201, 215, 190>>, <<0, 1, 0>>)
CloudyHours == Hourly(<<150, 152, 149>>, <<3, 45, 2>>)
RainHours == Hourly(<<98, 97, 95>>, <<61, 80, 95>>)
OddHours == Hourly(<<-12, -15, -20>>, <<100, 0, 71>>)
NoHours == [time |-> <<>>, temperature_2m |-> None, weather_code |-> <<>>]
NoTemperature ==
    [time |-> <<StartHour>>, temperature_2m |-> None, weather_code |-> <<3>>]

Failure(e) == [kind |-> e, hourly |-> NoHours]
Body(h) == [kind |-> "json", hourly |-> h]

(* What the provider answers to the 1st, 2nd, ... request for one point.  Every
   script holds an answer for a request past the third. *)
MeteoScripts ==
    [sunny       |-> <<Body(SunnyHours), Body(SunnyHours), Body(SunnyHours), Body(SunnyHours)>>,
     cloudy      |-> <<Body(CloudyHours), Body(CloudyHours), Body(CloudyHours), Body(CloudyHours)>>,
     odd         |-> <<Body(OddHours), Body(OddHours), Body(OddHours), Body(OddHours)>>,
     retry_rain  |-> <<Failure("ConnectionError"), Body(RainHours), Body(RainHours), Body(RainHours)>>,
     retry2_sun  |-> <<Failure("HTTPError"), Failure("JSONDecodeError"), Body(SunnyHours), Body(SunnyHours)>>,
     down        |-> <<Failure("ConnectionError"), Failure("HTTPError"), Failure("JSONDecodeError"), Body(SunnyHours)>>,
     no_hours    |-> <<Body(NoHours), Body(SunnyHours), Body(SunnyHours), Body(SunnyHours)>>,
     retry_empty |-> <<Failure("HTTPError"), Body(NoHours), Body(RainHours), Body(RainHours)>>,
     no_temp     |-> <<Body(NoTemperature), Body(SunnyHours), Body(SunnyHours), Body(SunnyHours)>>]

MeteoPatterns ==
    [up     |-> <<"sunny">>,
     outage |-> <<"down">>,
     flaky  |-> <<"retry_rain", "down", "no_hours", "cloudy", "retry2_sun", "down",
                  "odd", "retry_empty">>,
     broken |-> <<"cloudy", "retry_rain", "no_temp">>]

(* The provider's answer to request number `att` (0-based) for point j *)
MeteoResponse(pat, j, att) ==
    MeteoScripts[MeteoPatterns[pat][((j - 1) % Len(MeteoPatterns[pat])) + 1]][att + 1]

----------------------------------------------------------------------------
(* _get_open_meteo_data *)

(* datetime.fromisoformat(t), as seconds *)
IsoTimestamp(hour) == hour * 3600

(* min(range(len(api_times)), key=...): the first index of least distance *)
ClosestTimeIdx(point, api_times) ==
    LET key(k) == Abs(IsoTimestamp(api_times[k]) - point.timestamp)
    IN  CHOOSE k \in 1..Len(api_times) :
            /\ \A j \in 1..Len(api_times) : key(k) <= key(j)
            /\ \A j \in 1..(k - 1) : key(j) > key(k)

(* The dict the adapter returns from a body with an hourly time series *)
DetailedData(point, hourly) ==
    LET idx == ClosestTimeIdx(point, hourly.time)
    IN  [temperature |-> hourly.temperature_2m[1][idx],
         description |-> wmo_code_to_description(hourly.weather_code[idx])]

(* `for attempt in range(3)` *)
InRetryRange(att) == att < MAX_ATTEMPTS

(* `if attempt == 2` in the except clause *)
LastAttempt(att) == att = 2

(* `if not api_times_str: return None` *)
NoTimeSeries(hourly) == hourly.time = <<>>

Return(value) == [do |-> "return", value |-> value, error |-> None]
Retry == [do |-> "retry", value |-> None, error |-> None]
Raise(e) == [do |-> "raise", value |-> None, error |-> Some(e)]

(* Mutant: a body with no hourly time series is retried like a failure. *)
AttemptResultRetryEmpty(point, att, response) ==
    IF response.kind \in RequestExceptions \/ NoTimeSeries(response.hourly)
    THEN IF LastAttempt(att) THEN Return(None)
         ELSE IF InRetryRange(att + 1) THEN Retry
         ELSE Return(None)
    ELSE IF response.hourly.temperature_2m = None
    THEN Raise("KeyError: 'temperature_2m'")
    ELSE Return(Some(DetailedData(point, response.hourly)))

(* What one iteration of the retry loop does with the outcome of its request
   (attempt `att`, 0-based): return a value, go round again, or let an
   exception that is no RequestException leave the adapter. *)
AttemptResult(point, att, response) ==
    IF response.kind \in RequestExceptions
    THEN IF LastAttempt(att) THEN Return(None)
         ELSE IF InRetryRange(att + 1) THEN Retry   \* time.sleep(1)
         ELSE Return(None)                          \* the loop ran out
    ELSE IF NoTimeSeries(response.hourly) THEN Return(None)
    ELSE IF response.hourly.temperature_2m = None
    THEN Raise("KeyError: 'temperature_2m'")
    ELSE Return(Some(DetailedData(point, response.hourly)))

(* One iteration of the retry loop for sampled_points[point_idx]: the request
   and all the adapter does with its outcome. *)
MeteoAttempt ==
    /\ pc = "meteo"
    /\ point_idx <= Len(sampled_points)
    /\ InRetryRange(attempt)
    /\ LET point == sampled_points[point_idx]
           response == MeteoResponse(meteo_pattern, point_idx, attempt)
           result == AttemptResult(point, attempt, response)
       IN  /\ calls' = Append(calls, [api |-> "meteo", at |-> point_idx,
                                      attempt |-> attempt, outcome |-> response.kind])
           /\ attempt' = IF result.do = "retry" THEN attempt + 1 ELSE attempt
           /\ open_meteo_data' = IF result.do = "return" THEN result.value
                                 ELSE open_meteo_data
           /\ exception' = IF result.do = "raise" THEN result.error ELSE exception
           /\ pc' = IF result.do = "retry" THEN "meteo"
                    ELSE IF result.do = "return" THEN "reconcile"
                    ELSE "raised"
    /\ UNCHANGED <<routeVars, samplerVars, sampled_points, worldVars, yahooVars,
                   point_idx, reconciled, report>>

----------------------------------------------------------------------------
(* _generate_weather_report *)

(* Mutant: the `No forecast` branch is missing, the default takes its place. *)
DescriptionWithoutNoForecast(coarse, detailed) ==
    IF coarse = "Rain" THEN "Rain"
    ELSE IF detailed # None THEN detailed[1].description
    ELSE "Cloudy"

(* Mutant: an unavailable Detailed result always yields `No forecast`. *)
DescriptionNoDefault(coarse, detailed) ==
    IF coarse = "Rain" THEN "Rain"
    ELSE IF detailed # None THEN detailed[1].description
    ELSE "No forecast"

(* Mutant: the Detailed category wins outright, as in earlier revisions. *)
FinalDescriptionDetailedFirst(coarse, detailed) ==
    IF detailed # None THEN detailed[1].description
    ELSE IF coarse = "Rain" THEN "Rain"
    ELSE IF coarse = "No forecast" THEN "No forecast"
    ELSE "Cloudy"

(* Step 2: the final decision, from the Coarse description and the Detailed
   result *)
FinalDescription(coarse, detailed) ==
    IF coarse = "Rain" THEN "Rain"
    ELSE IF detailed # None THEN detailed[1].description
    ELSE IF coarse = "No forecast" THEN "No forecast"
    ELSE "Cloudy"

(* Step 1: the temperature *)
FinalTemperature(detailed) ==
    IF detailed # None THEN Some(detailed[1].temperature) ELSE None

Reconciled(weather, detailed) ==
    [description |-> FinalDescription(weather.description, detailed),
     rainfall_mm_h |-> weather.rainfall_mm_h,
     temperature |-> FinalTemperature(detailed)]

(* `if not sampled_points: return []` *)
ReportEmpty ==
    /\ pc = "sampled"
    /\ sampled_points = <<>>
    /\ report' = <<>>
    /\ pc' = "done"
    /\ UNCHANGED <<routeVars, samplerVars, sampled_points, worldVars, yahooVars,
                   meteoVars, calls, exception>>

(* the call of _get_weather_for_points_yahoo *)
YahooStart ==
    /\ pc = "sampled"
    /\ sampled_points # <<>>
    /\ chunk_start' = 0
    /\ pc' = "yahoo"
    /\ UNCHANGED <<routeVars, samplerVars, sampled_points, worldVars,
                   yahoo_responses, meteoVars, calls, exception, report>>

(* The rest of the loop body for sampled_points[point_idx], once
   _get_open_meteo_data returned *)
Reconcile ==
    /\ pc = "reconcile"
    /\ LET point == sampled_points[point_idx]
       IN  IF point.weather = None
           THEN \* point['weather']: KeyError, the Coarse adapter set no such key
                /\ exception' = Some("KeyError: 'weather'")
                /\ pc' = "raised"
                /\ UNCHANGED <<sampled_points, point_idx, attempt, reconciled>>
           ELSE /\ sampled_points' =
                     [sampled_points EXCEPT ![point_idx].weather =
                         Some(Reconciled(point.weather[1], open_meteo_data))]
                /\ reconciled' = Append(reconciled, [coarse |-> point.weather[1],
                                                      detailed |-> open_meteo_data])
                /\ point_idx' = point_idx + 1
                /\ attempt' = 0
                /\ pc' = "meteo"
                /\ UNCHANGED exception
    /\ UNCHANGED <<routeVars, samplerVars, worldVars, yahooVars, open_meteo_data,
                   calls, report>>

ReportReturn ==
    /\ pc = "meteo"
    /\ point_idx > Len(sampled_points)
    /\ report' = sampled_points
    /\ pc' = "done"
    /\ UNCHANGED <<routeVars, samplerVars, sampled_points, worldVars, yahooVars,
                   meteoVars, calls, exception>>

----------------------------------------------------------------------------
(* Inputs *)

Km(x) == x * Scale

(* Routes handed to simulate: [lat, lon, elapsed_seconds], vertices on whole
   kilometres, elapsed_seconds non-decreasing.  A minute to the kilometre and a
   second more: few interpolated timestamps are whole seconds. *)
StraightRoute(len) == <<<<0, 0, 0>>, <<0, Km(len), 60 * len + 1>>>>
BentRoute(a, b) ==
    <<<<0, 0, 0>>, <<0, Km(a), 45 * a + 1>>, <<Km(b), Km(a), 45 * a + 90 * b + 2>>>>

StandingRoute == <<<<Km(1), Km(2), 0>>, <<Km(1), Km(2), 30>>, <<Km(1), Km(2), 90>>>>

(* Routes of [lat, lon] pairs, and one with a pair after a triple. *)
PairRoute(len) == <<<<0, 0>>, <<0, Km(len)>>>>
MixedRoute == <<<<0, 0, 0>>, <<0, Km(30)>>>>

SimulatedRoutes ==
    {<<>>, <<<<Km(35), Km(139), 0>>>>, StandingRoute, <<<<0, 0>>>>, MixedRoute}
    \cup {PairRoute(len) : len \in {0, 12, 30, 300}}
    \cup {StraightRoute(len) : len \in 0..MaxRouteKm}
    \cup {BentRoute(a, b) : a \in {0, 7, 100}, b \in {0, 13, 150}}

(* Routes handed straight to _sample_route_by_distance: [lat, lon, timestamp],
   timestamps non-decreasing. *)
Coords == {<<0, x>> : x \in 0..MaxCoord} \cup {<<2, x>> : x \in 0..MaxCoord}

DirectRoutes2 ==
    {<<<<a[1], a[2], 0>>, <<b[1], b[2], t1>>>> :
        a \in Coords, b \in Coords, t1 \in {0, 7}}
DirectRoutes3 ==
    {<<<<a[1], a[2], 100>>, <<b[1], b[2], 100 + t1>>, <<c[1], c[2], 100 + t1 + t2>>>> :
        a \in Coords, b \in Coords, c \in Coords, t1 \in {0, 7}, t2 \in {0, 5}}
ScenarioA == <<<<0, 0, 0>>, <<0, Km(30), 1800>>>>

(* Two segments of one unit and a stop at the end. *)
PausedRoute == <<<<0, 0, 0>>, <<0, 1, 3>>, <<0, 2, 6>>, <<0, 2, 9>>>>

(* Journeys before the epoch (timestamps below 0): one that waits at the start
   and one whose last segment takes no time. *)
EarlyWaitRoute == <<<<0, 0, -1>>, <<0, 1, -1>>, <<0, 2, 4>>>>
EarlyRoute == <<<<0, 0, -10>>, <<0, 1, -7>>, <<0, 2, -3>>, <<0, 3, -3>>>>

DirectRoutes ==
    {r \in {<<>>, <<<<0, 1, 50>>>>, PausedRoute, EarlyWaitRoute, EarlyRoute}
            \cup DirectRoutes2 \cup DirectRoutes3 :
        \A k \in 1..(Len(r) - 1) : OnGrid(r[k], r[k + 1])}

(* Routes of the full pipeline *)
ReportRoutes ==
    {<<<<0, 0, 0>>>>, StraightRoute(12), BentRoute(7, 13), StraightRoute(30),
     StraightRoute(150), BentRoute(100, 150), StraightRoute(165),
     StraightRoute(300), PairRoute(30)}

----------------------------------------------------------------------------
(* Specifications *)

Idle ==
    /\ seg = 0 /\ cumulative_distance = 0 /\ next_sample_distance = 0
    /\ below = FALSE /\ fractions = <<>>
    /\ sampled_points = <<>>
    /\ chunk_start = 0 /\ yahoo_responses = <<>>
    /\ point_idx = 1 /\ attempt = 0 /\ open_meteo_data = None
    /\ calls = <<>> /\ reconciled = <<>> /\ exception = None /\ report = <<>>

EnterSimulate(routes) ==
    /\ pc = "simulate"
    /\ ordered_route_data_with_time \in routes
    /\ start_timestamp = StartMinute * 60 + 30
    /\ route_with_timestamps = <<>>
    /\ total_distance_km = 0
    /\ interval_km = 0
    /\ adjusted = FALSE
    /\ total_rounded_down = FALSE
    /\ end_tie = FALSE

EnterSampler(routes, intervals) ==
    /\ pc = "sample"
    /\ ordered_route_data_with_time = <<>>
    /\ start_timestamp = 0
    /\ route_with_timestamps \in routes
    /\ total_distance_km = 0
    /\ interval_km \in intervals
    /\ adjusted = FALSE
    /\ total_rounded_down = FALSE
    /\ end_tie \in BOOLEAN

(* SpecRoute: the sampler, called directly or from simulate; the providers
   play no part. *)
InitRoute ==
    /\ Idle
    /\ api_key = TRUE /\ yahoo_pattern = "dry" /\ meteo_pattern = "up"
    /\ \/ EnterSimulate(SimulatedRoutes)
       \/ EnterSampler(DirectRoutes, 1..MaxInterval)
       \/ EnterSampler({ScenarioA}, {Km(15)})

NextRoute ==
    \/ SimulateEmpty
    \/ SimulateUnpackError
    \/ SimulateProject
    \/ SampleEmptyRoute
    \/ SampleFirst
    \/ SampleEmit
    \/ SampleNextSegment
    \/ SampleReturn

SpecRoute == InitRoute /\ [][NextRoute]_vars

(* The interpreter runs a call to its end: a step that can be taken is taken. *)
SpecRouteFair == SpecRoute /\ WF_vars(NextRoute)

(* Spec: one invocation of the engine, with the providers. *)
Init ==
    /\ Idle
    /\ \/ /\ api_key = TRUE
          /\ yahoo_pattern \in DOMAIN YahooPatterns
       \/ /\ api_key = FALSE
          /\ yahoo_pattern = "dry"
    /\ meteo_pattern \in DOMAIN MeteoPatterns
    /\ \/ EnterSimulate(ReportRoutes \cup {<<>>})
       \/ EnterSampler({<<>>}, {Km(15)})

Next ==
    \/ SimulateEmpty
    \/ SimulateUnpackError
    \/ SimulateProject
    \/ SampleEmptyRoute
    \/ SampleFirst
    \/ SampleEmit
    \/ SampleNextSegment
    \/ SampleReturn
    \/ ReportEmpty
    \/ YahooStart
    \/ YahooNoKey
    \/ YahooBatch
    \/ YahooReturn
    \/ MeteoAttempt
    \/ Reconcile
    \/ ReportReturn

Spec == Init /\ [][Next]_vars

----------------------------------------------------------------------------
(* Properties.  reconciled[k] holds what the two adapters gave for point k; the
   point's final annotation is sampled_points[k].weather. *)

CoarseOf(k) == reconciled[k].coarse
DetailedOf(k) == reconciled[k].detailed
FinalOf(k) == sampled_points[k].weather[1]
ReconciledPoints == 1..Len(reconciled)

MeteoCallsFor(k) == SelectSeq(calls, LAMBDA c : c.api = "meteo" /\ c.at = k)

(* The Detailed adapter used up all its attempts for point k. *)
Exhausted(k) ==
    \E n \in 1..Len(calls) :
        /\ calls[n].api = "meteo" /\ calls[n].at = k
        /\ calls[n].attempt = MAX_ATTEMPTS - 1
        /\ calls[n].outcome \in RequestExceptions

(* C1: for every reconciled point, a Coarse `Rain` gives the final description
   Rain whatever the Detailed adapter returned; otherwise a Detailed category,
   when there is one, is the final description. *)
C1_ReconciliationPrecedence ==
    \A k \in ReconciledPoints :
        /\ CoarseOf(k).description = "Rain" => FinalOf(k).description = "Rain"
        /\ (CoarseOf(k).description # "Rain" /\ DetailedOf(k) # None)
               => FinalOf(k).description = DetailedOf(k)[1].description

C1_Witness ==
    /\ pc = "done"
    /\ \E k \in ReconciledPoints :
          /\ CoarseOf(k).description = "Rain"
          /\ DetailedOf(k) # None /\ DetailedOf(k)[1].description = "Sunny"
          /\ report[k].weather[1].description = "Rain"
    /\ \E k \in ReconciledPoints :
          /\ CoarseOf(k).description = "Rain" /\ DetailedOf(k) = None
          /\ report[k].weather[1].description = "Rain"
    /\ \E k \in ReconciledPoints :
          /\ CoarseOf(k).description = "No rain"
          /\ DetailedOf(k) # None /\ DetailedOf(k)[1].description = "Rain"
          /\ report[k].weather[1].description = "Rain"
    /\ \E k \in ReconciledPoints :
          /\ CoarseOf(k).description = "No forecast"
          /\ DetailedOf(k) # None /\ DetailedOf(k)[1].description = "Sunny"
          /\ report[k].weather[1].description = "Sunny"

(* C2, as claimed: a point the Coarse adapter marked `No forecast` and the
   Detailed adapter has nothing for ends as `Unknown`, and every description
   of the returned report is one of Sunny, Cloudy, Rain, Unknown. *)
C2_Original ==
    /\ \A k \in ReconciledPoints :
          (CoarseOf(k).description = "No forecast" /\ DetailedOf(k) = None)
              => FinalOf(k).description = "Unknown"
    /\ pc = "done" =>
          \A k \in 1..Len(report) :
              report[k].weather[1].description \in {"Sunny", "Cloudy", "Rain", "Unknown"}

(* C2, amended: such a point ends as `No forecast`, and every description of
   the returned report is one of Sunny, Cloudy, Rain, No forecast. *)
C2_NoForecastIsFinal ==
    /\ \A k \in ReconciledPoints :
          (CoarseOf(k).description = "No forecast" /\ DetailedOf(k) = None)
              => FinalOf(k).description = "No forecast"
    /\ pc = "done" =>
          \A k \in 1..Len(report) :
              /\ report[k].weather # None
              /\ report[k].weather[1].description
                     \in {"Sunny", "Cloudy", "Rain", "No forecast"}

C2_Witness ==
    /\ pc = "done"
    /\ ~api_key
    /\ \E k \in ReconciledPoints :
          /\ CoarseOf(k).description = "No forecast" /\ DetailedOf(k) = None
          /\ report[k].weather[1].description = "No forecast"
    /\ \E k \in ReconciledPoints : report[k].weather[1].description = "Cloudy"

(* C7: a point for which the Detailed adapter used up its 3 attempts has no
   temperature, keeps the Coarse rainfall, and is Rain when Coarse said Rain
   and Cloudy when Coarse said `No rain`. *)
C7_ExhaustedFallsThrough ==
    \A k \in ReconciledPoints :
        Exhausted(k) =>
            /\ Len(MeteoCallsFor(k)) = MAX_ATTEMPTS
            /\ FinalOf(k).temperature = None
            /\ FinalOf(k).rainfall_mm_h = CoarseOf(k).rainfall_mm_h
            /\ CoarseOf(k).description = "Rain" => FinalOf(k).description = "Rain"
            /\ CoarseOf(k).description = "No rain" => FinalOf(k).description = "Cloudy"

C7_Witness ==
    /\ pc = "done"
    /\ \E k \in ReconciledPoints :
          /\ Exhausted(k) /\ CoarseOf(k).description = "Rain"
          /\ report[k].weather[1].description = "Rain"
          /\ report[k].weather[1].rainfall_mm_h \in {Some(12), Some(7)}
          /\ report[k].weather[1].temperature = None
    /\ \E k \in ReconciledPoints :
          /\ Exhausted(k) /\ CoarseOf(k).description = "No rain"
          /\ report[k].weather[1] =
                [description |-> "Cloudy", rainfall_mm_h |-> Some(0), temperature |-> None]
    /\ \E k \in ReconciledPoints : ~Exhausted(k) /\ report[k].weather[1].temperature # None

----------------------------------------------------------------------------
(* The Coarse adapter's batches.  Batch b is the b-th request; its points are
   those the chunk points[i:i + chunk_size] holds. *)

BatchStart(b) == (b - 1) * chunk_size
BatchPoints(b) ==
    {k \in 1..Len(sampled_points) : BatchStart(b) < k /\ k <= BatchStart(b) + chunk_size}
BatchCount == (Len(sampled_points) + chunk_size - 1) \div chunk_size

BatchFailed(b) == yahoo_responses[b].kind \in RequestExceptions
BatchHasFeatures(b) == yahoo_responses[b].kind = "json" /\ yahoo_responses[b].hasFeature
BatchMatches(b) ==
    BatchHasFeatures(b) /\ Len(yahoo_responses[b].Feature) = Cardinality(BatchPoints(b))

YahooCalls == SelectSeq(calls, LAMBDA c : c.api = "yahoo")
MeteoCalls == SelectSeq(calls, LAMBDA c : c.api = "meteo")

(* C3: the requests are for consecutive batches of 10; until the reconciler
   touches the points, a failed batch has all its points `No forecast` with no
   rainfall, a batch answered in full has each point annotated from its own
   feature whatever happened to the other batches, and a point no batch has
   reached has no annotation; the adapter returns only after requesting every
   batch. *)
C3_BatchFailureIsolation ==
    /\ \A n \in 1..Len(YahooCalls) : YahooCalls[n].at = BatchStart(n)
    /\ reconciled = <<>> =>
          /\ \A b \in 1..Len(yahoo_responses) :
                /\ BatchFailed(b) =>
                      \A k \in BatchPoints(b) : sampled_points[k].weather = Some(NoForecast)
                /\ BatchMatches(b) =>
                      \A k \in BatchPoints(b) :
                          sampled_points[k].weather =
                              Some(CoarseWeather(sampled_points[k],
                                                 yahoo_responses[b].Feature[k - BatchStart(b)]))
          /\ api_key =>
                \A k \in 1..Len(sampled_points) :
                    k > Len(yahoo_responses) * chunk_size => sampled_points[k].weather = None
    /\ (api_key /\ pc \in {"meteo", "reconcile", "done"}) =>
          Len(yahoo_responses) = BatchCount

C3_Witness ==
    /\ pc = "meteo" /\ reconciled = <<>>
    /\ Len(yahoo_responses) = 2
    /\ BatchFailed(1) /\ BatchMatches(2)
    /\ \A k \in BatchPoints(1) : sampled_points[k].weather = Some(NoForecast)
    /\ \E k \in BatchPoints(2) : sampled_points[k].weather[1].description = "Rain"
    /\ \E k \in BatchPoints(2) : sampled_points[k].weather[1].description = "No rain"

(* C4, as claimed: a batch answered with a feature count other than its number
   of points has every point marked `No forecast` with no rainfall. *)
C4_MismatchFailsBatch ==
    reconciled = <<>> =>
        \A b \in 1..Len(yahoo_responses) :
            (BatchHasFeatures(b) /\ ~BatchMatches(b)) =>
                \A k \in BatchPoints(b) : sampled_points[k].weather = Some(NoForecast)

(* C5, as claimed: whatever the providers do, no exception leaves simulate, and
   for a non-empty route the report has one annotated entry per sample point. *)
C5_NeverRaises ==
    /\ exception = None
    /\ pc # "raised"
    /\ (pc = "done" /\ ordered_route_data_with_time # <<>>) =>
          /\ Len(report) = Len(sampled_points) /\ Len(report) >= 1
          /\ \A k \in 1..Len(report) : report[k].weather # None

(* C6: per point the Detailed adapter issues at most 3 requests; a request
   after the first follows a failed request for the same point; a request that
   got a body, with or without an hourly time series, is the point's last; the
   adapter returns the body's data, or None for a body without time series and
   after the third failure, which does not raise. *)
C6_BoundedRetry ==
    /\ \A k \in 1..Len(sampled_points) : Len(MeteoCallsFor(k)) <= MAX_ATTEMPTS
    /\ \A n \in 1..Len(MeteoCalls) :
          /\ MeteoCalls[n].attempt > 0 =>
                /\ n > 1
                /\ MeteoCalls[n - 1].at = MeteoCalls[n].at
                /\ MeteoCalls[n - 1].attempt = MeteoCalls[n].attempt - 1
                /\ MeteoCalls[n - 1].outcome \in RequestExceptions
          /\ (n < Len(MeteoCalls) /\ MeteoCalls[n].outcome = "json") =>
                MeteoCalls[n + 1].at # MeteoCalls[n].at
    /\ pc = "reconcile" =>
          LET last == MeteoCalls[Len(MeteoCalls)]
              response == MeteoResponse(meteo_pattern, last.at, last.attempt)
          IN  /\ last.at = point_idx
              /\ IF last.outcome \in RequestExceptions
                 THEN last.attempt = MAX_ATTEMPTS - 1 /\ open_meteo_data = None
                 ELSE IF response.hourly.time = <<>>
                 THEN open_meteo_data = None
                 ELSE open_meteo_data =
                          Some(DetailedData(sampled_points[point_idx], response.hourly))
    /\ exception = Some("KeyError: 'temperature_2m'") =>
          MeteoCalls[Len(MeteoCalls)].outcome = "json"

C6_Witness ==
    /\ pc = "reconcile"
    /\ Len(MeteoCallsFor(point_idx)) = MAX_ATTEMPTS
    /\ \A n \in 1..MAX_ATTEMPTS :
          MeteoCallsFor(point_idx)[n].outcome \in RequestExceptions
    /\ open_meteo_data = None
    /\ \E k \in ReconciledPoints :
          /\ Len(MeteoCallsFor(k)) = 2 /\ DetailedOf(k) # None
    /\ \E k \in ReconciledPoints :
          /\ Len(MeteoCallsFor(k)) = 1 /\ DetailedOf(k) = None

----------------------------------------------------------------------------
(* Properties of the sampler (SpecRoute) *)

(* The first sample is the first route point, at distance 0. *)
StartsAtFirstPoint ==
    /\ sampled_points[1].distance_km = 0
    /\ sampled_points[1].lat = route_with_timestamps[1][1]
    /\ sampled_points[1].lon = route_with_timestamps[1][2]

(* C8 as stated: the first sample is the first route point at distance 0, and
   distance_km and timestamp never decrease along the samples.  Violated: a
   sample on the end of a segment whose timestamp there is n < 0 can get
   n + 1, and the next sample n. *)
C8_Original ==
    sampled_points # <<>> =>
        /\ StartsAtFirstPoint
        /\ \A k \in 1..(Len(sampled_points) - 1) :
              /\ sampled_points[k].distance_km <= sampled_points[k + 1].distance_km
              /\ sampled_points[k].timestamp <= sampled_points[k + 1].timestamp

(* C8: the first sample is the first route point at distance 0, distance_km
   never decreases along the samples, and timestamp never decreases from a
   sample to the next unless the next one's is below 0 (a time before the
   epoch), where it can be 1 second less. *)
C8_SamplesMonotone ==
    sampled_points # <<>> =>
        /\ StartsAtFirstPoint
        /\ \A k \in 1..(Len(sampled_points) - 1) :
              /\ sampled_points[k].distance_km <= sampled_points[k + 1].distance_km
              /\ \/ sampled_points[k].timestamp <= sampled_points[k + 1].timestamp
                 \/ /\ sampled_points[k + 1].timestamp < 0
                    /\ sampled_points[k].timestamp
                          = sampled_points[k + 1].timestamp + 1

C8_Witness ==
    /\ pc = "sampled"
    /\ route_with_timestamps = EarlyRoute
    /\ Len(sampled_points) = 4
    /\ sampled_points[2].timestamp < sampled_points[3].timestamp
    /\ sampled_points[3].timestamp = sampled_points[4].timestamp + 1

(* The double total_distance_km is at least km kilometres. *)
TotalAtLeast(km) ==
    \/ total_distance_km > Km(km)
    \/ total_distance_km = Km(km) /\ ~total_rounded_down

(* C9: a route handed to simulate whose total_distance_km is at least
   HARD_MIN_INTERVAL * (MIN_POINTS - 1) = 20 km is sampled at MIN_POINTS to
   MAX_POINTS points. *)
C9_PointCountInRange ==
    (/\ pc = "sampled"
     /\ ordered_route_data_with_time # <<>>
     /\ TotalAtLeast(HARD_MIN_INTERVAL * (MIN_POINTS - 1)))
        => /\ Len(sampled_points) >= MIN_POINTS
           /\ Len(sampled_points) <= MAX_POINTS

C9_Witness ==
    /\ pc = "sampled"
    /\ ordered_route_data_with_time # <<>>
    /\ total_distance_km > Km(DEFAULT_INTERVAL * MAX_POINTS)
    /\ Len(route_with_timestamps) = 3
    /\ Len(sampled_points) = MAX_POINTS

ScenarioAHolds ==
    (route_with_timestamps = ScenarioA /\ interval_km = Km(15)) =>
        /\ Len(sampled_points) = 3
        /\ sampled_points[1].distance_km = 0
        /\ sampled_points[2].distance_km = 1500
        /\ sampled_points[3].distance_km = 3000
        /\ 2 * sampled_points[2].lon = ScenarioA[1][2] + ScenarioA[2][2]

(* C10, as claimed: floor(L/d) + 1 samples, the k-th with distance_km equal to
   (k - 1) * d; Scenario A gives 3 samples at 0, 15 and 30 km. *)
C10_Original ==
    (pc = "sampled" /\ route_with_timestamps # <<>>) =>
        /\ Len(sampled_points) = (RouteLength(route_with_timestamps) \div interval_km) + 1
        /\ \A k \in 1..Len(sampled_points) :
              sampled_points[k].distance_km * Scale = 100 * (k - 1) * interval_km
        /\ ScenarioAHolds

(* The number of samples of a route of length len at interval d: one at 0 and
   one at every multiple of d below len, and one at len itself where len is a
   multiple of d and the doubles give the while condition as true there. *)
GridCount(len, d, tie) ==
    (len \div d) + (IF len > 0 /\ len % d = 0 /\ ~tie THEN 0 ELSE 1)

(* C10, amended: a sample at 0 and at every multiple of d below L, one at L
   itself where L is a multiple of d and the doubles compare so, the k-th with
   distance_km equal to (k - 1) * d rounded to 2 decimals; a sample that falls
   on an inner vertex is not lost; Scenario A gives samples at 0 and 15 km, the
   second halfway, and a third at 30 km where the doubles compare so. *)
C10_SamplingGrid ==
    (pc = "sampled" /\ route_with_timestamps # <<>>) =>
        /\ Len(sampled_points) =
              GridCount(RouteLength(route_with_timestamps), interval_km, end_tie)
        /\ \A k \in 1..Len(sampled_points) :
              sampled_points[k].distance_km = Round2((k - 1) * interval_km)
        /\ (route_with_timestamps = ScenarioA /\ interval_km = Km(15)) =>
              /\ Len(sampled_points) = (IF end_tie THEN 3 ELSE 2)
              /\ sampled_points[2].distance_km = 1500
              /\ 2 * sampled_points[2].lon = ScenarioA[1][2] + ScenarioA[2][2]

C10_Witness ==
    /\ pc = "sampled"
    /\ route_with_timestamps = ScenarioA
    /\ Len(sampled_points) = 3
    /\ sampled_points[3].lon = ScenarioA[2][2]

(* C11: a route of [lat, lon, elapsed_seconds] points of total distance 0
   handed to simulate (one point, or several at the same coordinates) is sampled at exactly one point, at distance 0, and
   the interval adjustment does not run: the interval stays the default. *)
C11_ZeroLengthRoute ==
    (/\ ordered_route_data_with_time # <<>>
     /\ \A k \in DOMAIN ordered_route_data_with_time :
           Unpacks(ordered_route_data_with_time[k])
     /\ RouteLength(ordered_route_data_with_time) = 0
     /\ pc # "simulate")
        => /\ total_distance_km = 0
           /\ ~adjusted
           /\ interval_km = DEFAULT_INTERVAL * Scale
           /\ exception = None
           /\ pc = "sampled" =>
                 /\ Len(sampled_points) = 1
                 /\ sampled_points[1].distance_km = 0
                 /\ sampled_points[1].lat = ordered_route_data_with_time[1][1]
                 /\ sampled_points[1].lon = ordered_route_data_with_time[1][2]

C11_Witness ==
    /\ pc = "sampled"
    /\ ordered_route_data_with_time = StandingRoute
    /\ seg = 3
    /\ Len(sampled_points) = 1
    /\ ~adjusted

(* C12, as claimed: handed a route of [lat, lon] pairs, simulate raises nothing
   and projects it at some average speed: the first timestamp is the start
   time, and each later one is the previous timestamp plus
   segment distance / avg_speed_kmh * 3600 seconds. *)
C12_Original ==
    (/\ pc # "simulate"
     /\ ordered_route_data_with_time # <<>>
     /\ \A k \in DOMAIN ordered_route_data_with_time :
           Len(ordered_route_data_with_time[k]) = 2)
        => /\ exception = None
           /\ pc # "raised"
           /\ Len(route_with_timestamps) = Len(ordered_route_data_with_time)
           /\ route_with_timestamps[1][3] = start_timestamp
           /\ \E avg_speed_kmh \in 1..120 :
                 \A k \in 2..Len(route_with_timestamps) :
                    (route_with_timestamps[k][3] - route_with_timestamps[k - 1][3])
                        * avg_speed_kmh * Scale
                    = 3600 * haversine(route_with_timestamps[k - 1][1],
                                       route_with_timestamps[k - 1][2],
                                       route_with_timestamps[k][1],
                                       route_with_timestamps[k][2])

(* C12, amended: simulate takes a route and a start time only.  A route of
   [lat, lon, elapsed_seconds] triples is projected point by point to
   [lat, lon, start time + elapsed_seconds]; a route holding a point that is not
   a triple, a [lat, lon] pair included, raises ValueError once the triples
   before that point are projected, before anything is sampled or requested. *)
C12_ExplicitTimeOnly ==
    (pc # "simulate" /\ ordered_route_data_with_time # <<>>) =>
        LET bad == FirstBad(ordered_route_data_with_time)
        IN  /\ Len(route_with_timestamps) = bad - 1
            /\ \A k \in DOMAIN route_with_timestamps :
                  /\ route_with_timestamps[k][1] = ordered_route_data_with_time[k][1]
                  /\ route_with_timestamps[k][2] = ordered_route_data_with_time[k][2]
                  /\ route_with_timestamps[k][3] =
                        start_timestamp + ordered_route_data_with_time[k][3]
            /\ bad <= Len(ordered_route_data_with_time) =>
                  /\ pc = "raised"
                  /\ exception = Some("ValueError")
                  /\ sampled_points = <<>>
                  /\ calls = <<>>
                  /\ report = <<>>
            /\ bad > Len(ordered_route_data_with_time) =>
                  exception # Some("ValueError") \/ calls # <<>>

C12_Witness ==
    /\ pc = "raised"
    /\ ordered_route_data_with_time = PairRoute(30)
    /\ exception = Some("ValueError")

(* C13: provider requests are issued only once sampling is complete; the Coarse
   requests are for batches 1, 2, ... in order, each answered before the next
   request, and all of them precede the first Detailed request; the Detailed
   requests go through the sample points in order, the attempts 0, 1, 2 for a
   point in a row, a retry only after a failed attempt, before the first
   attempt for the next point. *)
C13_CallOrder ==
    calls # <<>> =>
        /\ pc \in {"yahoo", "meteo", "reconcile", "raised", "done"}
        /\ seg = Len(route_with_timestamps)
        /\ \A i \in 1..Len(calls), j \in 1..Len(calls) :
              (i < j /\ calls[i].api = "meteo") => calls[j].api = "meteo"
        /\ Len(yahoo_responses) = Len(YahooCalls)
        /\ \A b \in 1..Len(YahooCalls) :
              /\ b <= BatchCount
              /\ YahooCalls[b].at = BatchStart(b)
        /\ MeteoCalls # <<>> =>
              /\ Len(YahooCalls) = (IF api_key THEN BatchCount ELSE 0)
              /\ MeteoCalls[1].at = 1 /\ MeteoCalls[1].attempt = 0
        /\ \A i \in 1..(Len(MeteoCalls) - 1) :
              \/ /\ MeteoCalls[i + 1].at = MeteoCalls[i].at
                 /\ MeteoCalls[i + 1].attempt = MeteoCalls[i].attempt + 1
                 /\ MeteoCalls[i].outcome \in RequestExceptions
              \/ /\ MeteoCalls[i + 1].at = MeteoCalls[i].at + 1
                 /\ MeteoCalls[i + 1].attempt = 0
        /\ \A i \in 1..Len(MeteoCalls) : MeteoCalls[i].at <= Len(sampled_points)

C13_Witness ==
    /\ pc = "done"
    /\ Len(YahooCalls) = 2
    /\ \E k \in 1..(Len(sampled_points) - 1) :
          /\ Len(MeteoCallsFor(k)) = MAX_ATTEMPTS
          /\ Len(MeteoCallsFor(k + 1)) = 1
    /\ \E k \in 1..(Len(sampled_points) - 1) :
          /\ Len(MeteoCallsFor(k)) = 1
          /\ Len(MeteoCallsFor(k + 1)) = 2

(* Sample k lies on segment s of the route, its timestamp within the
   segment's. *)
Between(x, a, b) == (a <= x /\ x <= b) \/ (b <= x /\ x <= a)
OnSegment(k, s) ==
    /\ Between(sampled_points[k].lat, route_with_timestamps[s][1],
               route_with_timestamps[s + 1][1])
    /\ Between(sampled_points[k].lon, route_with_timestamps[s][2],
               route_with_timestamps[s + 1][2])
    /\ Between(sampled_points[k].timestamp, route_with_timestamps[s][3],
               route_with_timestamps[s + 1][3])

(* Sample k is the end point of segment s, or a rounding error past it: its
   timestamp, a whole number, is the end's or, truncated toward zero from just
   above an end's below 0, the next one. *)
AtSegmentEnd(k, s) ==
    /\ sampled_points[k].lat = route_with_timestamps[s + 1][1]
    /\ sampled_points[k].lon = route_with_timestamps[s + 1][2]
    /\ \/ sampled_points[k].timestamp = route_with_timestamps[s + 1][3]
       \/ /\ route_with_timestamps[s + 1][3] < 0
          /\ sampled_points[k].timestamp = route_with_timestamps[s + 1][3] + 1

(* The double cumulative_distance lies below the double
   next_sample_distance. *)
CumulativeBelowNext ==
    \/ cumulative_distance < next_sample_distance
    \/ cumulative_distance = next_sample_distance /\ below

(* The double fraction f is above 0. *)
FractionPositive(f) == f.num > 0 \/ (f.num = 0 /\ f.cum_below)

(* No division by a distance of 0 has left the sampler. *)
NoDivisionByZero ==
    \A e \in {"ValueError: cannot convert float NaN to integer",
              "OverflowError: cannot convert float infinity to integer"} :
       exception # Some(e)

(* What the loop keeps, the fractions apart: next_sample_distance is above
   cumulative_distance, the while body is entered only on a segment of
   positive length, and sample k + 1 is the one pass k appended, on the
   segment that pass was in unless its fraction lies past 1. *)
LoopKeeps ==
    /\ NoDivisionByZero
    /\ pc = "sample_loop" =>
          /\ interval_km > 0
          /\ CumulativeBelowNext
          /\ next_sample_distance = Len(sampled_points) * interval_km
          /\ (seg < Len(route_with_timestamps) /\ TRUE \in WhileOutcomes)
                => SegDistance(seg) > 0
    /\ sampled_points # <<>> => Len(fractions) = Len(sampled_points) - 1
    /\ \A k \in 1..Len(fractions) :
          /\ fractions[k].seg \in 1..(Len(route_with_timestamps) - 1)
          /\ fractions[k].den = SegDistance(fractions[k].seg)
          /\ fractions[k].den > 0
          /\ FractionPositive(fractions[k])
          /\ ~fractions[k].past_end => OnSegment(k + 1, fractions[k].seg)

(* C14, as claimed: next_sample_distance stays above cumulative_distance, the
   while body runs only on segments of positive length, and every fraction
   lies in (0, 1], so that each emitted point lies on its segment. *)
C14_Original ==
    /\ LoopKeeps
    /\ \A k \in 1..Len(fractions) :
          /\ fractions[k].num <= fractions[k].den
          /\ ~fractions[k].past_end

SamplerLoopInvariant ==
    /\ LoopKeeps
    /\ \A k \in 1..Len(fractions) :
          /\ fractions[k].num <= fractions[k].den
          /\ fractions[k].past_end =>
                /\ fractions[k].num = fractions[k].den
                /\ AtSegmentEnd(k + 1, fractions[k].seg)

(* C14, amended: with a positive interval, all through the sampler's loop
   next_sample_distance is greater than cumulative_distance; the while body
   runs only on a segment of positive length, so it never divides by zero;
   its fraction (next_sample_distance - cumulative_distance) / distance is
   above 0 and at most 1, except that for a sample that falls on the end of
   its segment the double can lie past 1 by a rounding error; each emitted
   point lies on the segment the body was in, in that case at its end or a
   rounding error past it, its timestamp, in whole seconds, being the end's
   or, where that is below 0, 1 second more; and the loop comes to its end:
   the sampler returns. *)
C14_SamplerLoop ==
    /\ []SamplerLoopInvariant
    /\ (pc = "sample_loop") ~> (pc = "sampled")

C14_Witness ==
    /\ pc = "sample_loop"
    /\ seg < Len(route_with_timestamps)
    /\ SegDistance(seg) = 0
    /\ cumulative_distance = next_sample_distance
    /\ below
    /\ Len(fractions) >= 1
    /\ fractions[1].past_end
    /\ fractions[1].seg = 1

(* C15: for a route of any length the interval simulate chooses gives at most
   15 sample points, and one invocation on a non-empty route issues at most 2
   Coarse requests and at most 45 Detailed requests, 3 at most for each
   point. *)
C15_CallBudget ==
    /\ pc = "simulate" =>
          \A len \in 1..MaxRouteKm :
             \A rounded_down \in TotalRoundings(Km(len)) :
                \A tie \in EndTies(Km(len), rounded_down) :
                   LET interval == SelectInterval(Km(len), rounded_down)
                   IN  (Km(len) \div interval)
                          + (IF Km(len) % interval = 0 /\ ~tie THEN 0 ELSE 1) <= 15
    /\ ordered_route_data_with_time # <<>> =>
          /\ Len(sampled_points) <= 15
          /\ Len(YahooCalls) <= 2
          /\ Len(MeteoCalls) <= 45
          /\ \A k \in 1..Len(sampled_points) : Len(MeteoCallsFor(k)) <= 3

C15_Witness ==
    /\ pc = "done"
    /\ total_distance_km > Km(DEFAULT_INTERVAL * MAX_POINTS)
    /\ Len(sampled_points) = 15
    /\ Len(YahooCalls) = 2
    /\ Len(MeteoCalls) = 45

====
